---- MODULE Spec2Model ----
(***************************************************************************)
(* Model of add_links.py: the Bible reference linking traversal.           *)
(*                                                                         *)
(* Text is a sequence of one-character strings.  The Unicode superscript   *)
(* digits are written "sup0" .. "sup9".  Font sizes and coordinates are    *)
(* integers: a coordinate counts tenths of a PDF unit, so the 0.3 margin   *)
(* of rect_for_span_chars is 3.  Python's None is None (book) and NoInt    *)
(* (numbers).                                                              *)
(***************************************************************************)
EXTENDS Integers, Sequences, FiniteSets, TLC

None == "None"
NoInt == 0 - 1

(***************************************************************************)
(* Character classes of Python's str and re.                               *)
(***************************************************************************)
Digits == <<"0", "1", "2", "3", "4", "5", "6", "7", "8", "9">>

DigitSet == {Digits[i] : i \in 1..10}

\* [¹²³⁰⁴-⁹]
SupDigitSet == {"sup0", "sup1", "sup2", "sup3", "sup4", "sup5", "sup6", "sup7",
                "sup8", "sup9"}

LetterSet == {"M", "t", "a", "k", "r", "L", "u", "J", "n", "h", "A", "c", "R",
              "o", "m", "C", "G", "l", "E", "p", "P", "T", "i", "H", "e", "b",
              "s", "d", "v", "x"}

SpaceSet == {" "}

\* str.isdigit(): true of the decimal digits and of the superscript digits
isdigit(c) == c \in DigitSet \cup SupDigitSet

\* str.isspace()
isspace(c) == c \in SpaceSet

\* \w of re: alphanumerics (str.isalnum, which holds of superscript digits) and "_"
IsWord(c) == c \in LetterSet \cup DigitSet \cup SupDigitSet \cup {"_"}

\* \b of re at position p (1-based index of the character after the boundary)
WordBoundary(t, p) ==
    LET before == p > 1 /\ p - 1 <= Len(t) /\ IsWord(t[p - 1])
        after == p >= 1 /\ p <= Len(t) /\ IsWord(t[p])
    IN before # after

(***************************************************************************)
(* abbr_to_code and the alternation alt built from its keys.               *)
(***************************************************************************)
abbr_to_code ==
    << <<<<"M", "t">>, "mat">>, <<<<"M", "a", "t">>, "mat">>,
       <<<<"M", "k">>, "mrk">>, <<<<"M", "r", "k">>, "mrk">>,
       <<<<"L", "k">>, "luk">>, <<<<"L", "u", "k">>, "luk">>,
       <<<<"J", "n">>, "jhn">>, <<<<"J", "h", "n">>, "jhn">>,
       <<<<"A", "c", "t">>, "act">>,
       <<<<"R", "o", "m">>, "rom">>,
       <<<<"1", "C", "o">>, "1co">>, <<<<"2", "C", "o">>, "2co">>,
       <<<<"G", "a", "l">>, "gal">>, <<<<"E", "p", "h">>, "eph">>,
       <<<<"P", "h", "p">>, "php">>, <<<<"C", "o", "l">>, "col">>,
       <<<<"1", "T", "h">>, "1th">>, <<<<"2", "T", "h">>, "2th">>,
       <<<<"1", "T", "i">>, "1ti">>, <<<<"2", "T", "i">>, "2ti">>,
       <<<<"T", "i", "t">>, "tit">>, <<<<"P", "h", "m">>, "phm">>,
       <<<<"H", "e", "b">>, "heb">>, <<<<"J", "a", "s">>, "jas">>,
       <<<<"1", "P", "e">>, "1pe">>, <<<<"2", "P", "e">>, "2pe">>,
       <<<<"1", "J", "n">>, "1jn">>, <<<<"2", "J", "n">>, "2jn">>,
       <<<<"3", "J", "n">>, "3jn">>,
       <<<<"J", "u", "d">>, "jud">>,
       <<<<"R", "e", "v">>, "rev">> >>

IsLen3(e) == Len(e[1]) = 3

IsLen2(e) == Len(e[1]) = 2

\* sorted(keys, key=len, reverse=True): a stable sort, the longer keys first
alt == SelectSeq(abbr_to_code, IsLen3) \o SelectSeq(abbr_to_code, IsLen2)

\* abbr_to_code.get(abbr): the code, or None
RECURSIVE CodeFrom(_, _)
CodeFrom(abbr, i) ==
    IF i > Len(abbr_to_code) THEN None
    ELSE IF abbr_to_code[i][1] = abbr THEN abbr_to_code[i][2]
    ELSE CodeFrom(abbr, i + 1)

abbr_to_code_get(abbr) == CodeFrom(abbr, 1)

(***************************************************************************)
(* Pieces of the regular expressions.  A position is a 1-based index; a    *)
(* failed match is 0.                                                      *)
(***************************************************************************)
\* the position after the longest run of characters of class S that starts at p
RECURSIVE RunEnd(_, _, _)
RunEnd(t, p, S) ==
    IF p <= Len(t) /\ t[p] \in S THEN RunEnd(t, p + 1, S) ELSE p

\* the literal lit at p: the position after it, or 0
LitEnd(t, p, lit) ==
    IF p + Len(lit) - 1 <= Len(t) /\ SubSeq(t, p, p + Len(lit) - 1) = lit
    THEN p + Len(lit) ELSE 0

\* (?:-\d+)? at p: the position after the group, p when the group is absent
OptRangeEnd(t, p) ==
    IF p <= Len(t) /\ t[p] = "-" /\ RunEnd(t, p + 1, DigitSet) > p + 1
    THEN RunEnd(t, p + 1, DigitSet) ELSE p

\* (?::\d+(?:-\d+)?)? at p
OptVerseEnd(t, p) ==
    IF p <= Len(t) /\ t[p] = ":" /\ RunEnd(t, p + 1, DigitSet) > p + 1
    THEN OptRangeEnd(t, RunEnd(t, p + 1, DigitSet)) ELSE p

\* (?:[superscript digits]+)? at p
OptSupEnd(t, p) == RunEnd(t, p, SupDigitSet)

(***************************************************************************)
(* token_re: three alternatives tried in order at each scan position.      *)
(***************************************************************************)
\* what follows the abbreviation in the first alternative, from position q:
\* \b\s*\d+(?::\d+(?:-\d+)?)?(?:[superscripts]+)?   (greedy; nothing follows
\* that could make the match give characters back)
FullTailEnd(t, q) ==
    LET r == RunEnd(t, q, SpaceSet)
        d == RunEnd(t, r, DigitSet)
    IN IF WordBoundary(t, q) /\ d > r THEN OptSupEnd(t, OptVerseEnd(t, d)) ELSE 0

\* first alternative at p: tries the abbreviations in the order of alt
RECURSIVE Alt1From(_, _, _)
Alt1From(t, p, i) ==
    IF i > Len(alt) THEN 0
    ELSE IF LitEnd(t, p, alt[i][1]) # 0 /\ FullTailEnd(t, LitEnd(t, p, alt[i][1])) # 0
         THEN FullTailEnd(t, LitEnd(t, p, alt[i][1]))
         ELSE Alt1From(t, p, i + 1)

Alt1End(t, p) == IF WordBoundary(t, p) THEN Alt1From(t, p, 1) ELSE 0

\* second alternative at p: \b\d+:\d+(?:-\d+)?(?:[superscripts]+)?
Alt2End(t, p) ==
    LET d == RunEnd(t, p, DigitSet)
        v == RunEnd(t, d + 1, DigitSet)
    IN IF WordBoundary(t, p) /\ d > p /\ d <= Len(t) /\ t[d] = ":" /\ v > d + 1
       THEN OptSupEnd(t, OptRangeEnd(t, v)) ELSE 0

\* t[p..e-1] matches \d+(?:-\d+)?(?:[superscripts]+)?
MatchesBare(t, p, e) ==
    \E d \in (p + 1)..e :
        /\ \A k \in p..(d - 1) : t[k] \in DigitSet
        /\ \/ \A k \in d..(e - 1) : t[k] \in SupDigitSet
           \/ /\ d < e /\ t[d] = "-"
              /\ \E r \in (d + 2)..e :
                    /\ \A k \in (d + 1)..(r - 1) : t[k] \in DigitSet
                    /\ \A k \in r..(e - 1) : t[k] \in SupDigitSet

\* third alternative at p: \b\d+(?:-\d+)?(?:[superscripts]+)?\b
\* The trailing \b makes the engine give characters back; every quantifier is
\* greedy and each shorter attempt ends earlier, so the match is the longest
\* candidate that ends at a word boundary.
Alt3End(t, p) ==
    LET ends == {e \in (p + 1)..(Len(t) + 1) : MatchesBare(t, p, e) /\ WordBoundary(t, e)}
    IN IF WordBoundary(t, p) /\ ends # {}
       THEN CHOOSE e \in ends : \A f \in ends : f <= e
       ELSE 0

\* token_re at p: the position after the match, or 0
TokenEnd(t, p) ==
    IF Alt1End(t, p) # 0 THEN Alt1End(t, p)
    ELSE IF Alt2End(t, p) # 0 THEN Alt2End(t, p)
    ELSE Alt3End(t, p)

\* token_re.finditer(line_text): the spans (s, e), 0-based as m.span() gives them
RECURSIVE FindFrom(_, _)
FindFrom(t, p) ==
    IF p > Len(t) THEN <<>>
    ELSE IF TokenEnd(t, p) # 0
         THEN <<[s |-> p - 1, e |-> TokenEnd(t, p) - 1]>> \o FindFrom(t, TokenEnd(t, p))
         ELSE FindFrom(t, p + 1)

token_re_finditer(t) == FindFrom(t, 1)

\* m.group(0) of a span
TokenText(t, sp) == SubSeq(t, sp.s + 1, sp.e)

NotSup(c) == c \notin SupDigitSet

\* SUPDIG_RE.sub removing no character
SUPDIG_RE_sub_Keep(token) == token

\* SUPDIG_RE.sub("", token)
SUPDIG_RE_sub(token) == SelectSeq(token, NotSup)

(***************************************************************************)
(* The strict token-level matches.  A group that did not take part is <<>> *)
(* (Python's None): a group that takes part is never empty.                *)
(***************************************************************************)
NoMatch == [ok |-> FALSE, book |-> <<>>, chap |-> <<>>, v1 |-> <<>>, v2 |-> <<>>]

\* ^(?P<chap>\d+)(?::(?P<v1>\d+)(?:-(?P<v2>\d+))?)?$ from position r, after book
FullRest(t, book, r) ==
    LET d == RunEnd(t, r, DigitSet)
        v == RunEnd(t, d + 1, DigitSet)
        w == RunEnd(t, v + 1, DigitSet)
        chap == SubSeq(t, r, d - 1)
    IN IF d = r THEN NoMatch
       ELSE IF d = Len(t) + 1
            THEN [ok |-> TRUE, book |-> book, chap |-> chap, v1 |-> <<>>, v2 |-> <<>>]
       ELSE IF t[d] # ":" \/ v = d + 1 THEN NoMatch
       ELSE IF v = Len(t) + 1
            THEN [ok |-> TRUE, book |-> book, chap |-> chap,
                  v1 |-> SubSeq(t, d + 1, v - 1), v2 |-> <<>>]
       ELSE IF t[v] = "-" /\ w > v + 1 /\ w = Len(t) + 1
            THEN [ok |-> TRUE, book |-> book, chap |-> chap,
                  v1 |-> SubSeq(t, d + 1, v - 1), v2 |-> SubSeq(t, v + 1, w - 1)]
       ELSE NoMatch

RECURSIVE FullFrom(_, _)
FullFrom(t, i) ==
    IF i > Len(alt) THEN NoMatch
    ELSE LET q == LitEnd(t, 1, alt[i][1])
         IN IF q # 0 /\ FullRest(t, alt[i][1], RunEnd(t, q, SpaceSet)).ok
            THEN FullRest(t, alt[i][1], RunEnd(t, q, SpaceSet))
            ELSE FullFrom(t, i + 1)

\* full_re.match(token_clean)
full_re_match(t) == FullFrom(t, 1)

\* chapverse_re.match(token_clean): ^(?P<chap>\d+):(?P<v1>\d+)(?:-(?P<v2>\d+))?$
chapverse_re_match(t) ==
    LET d == RunEnd(t, 1, DigitSet)
        m == FullRest(t, <<>>, 1)
    IN IF d > 1 /\ d <= Len(t) /\ m.ok THEN m ELSE NoMatch

\* verseonly_re.match(token_clean): ^(?P<v1>\d+)(?:-(?P<v2>\d+))?$
verseonly_re_match(t) ==
    LET d == RunEnd(t, 1, DigitSet)
        w == RunEnd(t, d + 1, DigitSet)
    IN IF d = 1 THEN NoMatch
       ELSE IF d = Len(t) + 1
            THEN [ok |-> TRUE, book |-> <<>>, chap |-> <<>>,
                  v1 |-> SubSeq(t, 1, d - 1), v2 |-> <<>>]
       ELSE IF t[d] = "-" /\ w > d + 1 /\ w = Len(t) + 1
            THEN [ok |-> TRUE, book |-> <<>>, chap |-> <<>>,
                  v1 |-> SubSeq(t, 1, d - 1), v2 |-> SubSeq(t, d + 1, w - 1)]
       ELSE NoMatch

(***************************************************************************)
(* int(), the decimal formatting of an f-string, and make_url.             *)
(***************************************************************************)
DigitVal(c) == CHOOSE i \in 0..9 : Digits[i + 1] = c

\* int(group) of a group of decimal digits
RECURSIVE int(_)
int(ds) ==
    IF Len(ds) = 0 THEN 0
    ELSE 10 * int(SubSeq(ds, 1, Len(ds) - 1)) + DigitVal(ds[Len(ds)])

\* int(group) if group else None
OptInt(ds) == IF Len(ds) = 0 THEN NoInt ELSE int(ds)

\* f"{n}" of a non-negative integer: its decimal digits, no leading zero
RECURSIVE str(_)
str(n) ==
    IF n < 10 THEN <<Digits[n + 1]>>
    ELSE str(n \div 10) \o <<Digits[(n % 10) + 1]>>

Base == "https://ebible.gr/collate/"

\* make_url testing its verses for truth, not for None: verse 0 counts as absent
make_url_Truthy(book_code, chap, v1, v2) ==
    IF v1 = NoInt \/ v1 = 0
    THEN <<Base, book_code, ".">> \o str(chap)
    ELSE IF v2 # NoInt /\ v2 # 0
         THEN <<Base, book_code, ".">> \o str(chap) \o <<".">> \o str(v1)
                  \o <<"-">> \o str(v2)
         ELSE <<Base, book_code, ".">> \o str(chap) \o <<".">> \o str(v1)

\* make_url(book_code, chap, v1=None, v2=None): the URL as its pieces in order
make_url(book_code, chap, v1, v2) ==
    IF v1 = NoInt
    THEN <<Base, book_code, ".">> \o str(chap)
    ELSE IF v2 # NoInt
         THEN <<Base, book_code, ".">> \o str(chap) \o <<".">> \o str(v1)
                  \o <<"-">> \o str(v2)
         ELSE <<Base, book_code, ".">> \o str(chap) \o <<".">> \o str(v1)

(***************************************************************************)
(* Rectangles <<x0, y0, x1, y1>> and the geometry of a token.              *)
(***************************************************************************)
Min(a, b) == IF a <= b THEN a ELSE b

Max(a, b) == IF a >= b THEN a ELSE b

\* fitz.Rect.is_empty: no area
RectIsEmpty(r) == r[1] >= r[3] \/ r[2] >= r[4]

\* rr | r of fitz.Rect: the smallest rectangle holding both; an empty operand
\* contributes nothing
RectOr(rr, r) ==
    IF RectIsEmpty(r) THEN rr
    ELSE IF RectIsEmpty(rr) THEN r
    ELSE <<Min(rr[1], r[1]), Min(rr[2], r[2]), Max(rr[3], r[3]), Max(rr[4], r[4])>>

NoRect == <<>>

\* union_rect(rects)
RECURSIVE union_rect(_)
union_rect(rects) ==
    IF Len(rects) = 0 THEN NoRect
    ELSE IF Len(rects) = 1 THEN rects[1]
    ELSE RectOr(union_rect(SubSeq(rects, 1, Len(rects) - 1)), rects[Len(rects)])

Margin == 3

\* bool(fitz.Rect): false of the rectangle whose four coordinates are 0
RectTruthy(r) == r # NoRect /\ r # <<0, 0, 0, 0>>

\* rect_for_span_chars taking the rectangle at index e as well
rect_for_span_chars_Inclusive(char_rects, s, e) ==
    LET rects == SubSeq(char_rects, s + 1, Min(e + 1, Len(char_rects)))
        rr == union_rect(rects)
    IN IF Len(rects) = 0 THEN NoRect
       ELSE <<rr[1] - Margin, rr[2] - Margin, rr[3] + Margin, rr[4] + Margin>>

\* rect_for_span_chars(char_rects, s, e): slice [s:e], 0-based, clipped
rect_for_span_chars(char_rects, s, e) ==
    LET rects == SubSeq(char_rects, s + 1, Min(e, Len(char_rects)))
        rr == union_rect(rects)
    IN IF Len(rects) = 0 THEN NoRect
       ELSE <<rr[1] - Margin, rr[2] - Margin, rr[3] + Margin, rr[4] + Margin>>

(***************************************************************************)
(* inherits_context_at(line_text, start_idx), start_idx 0-based.           *)
(***************************************************************************)
\* the while loop: j moves left over whitespace; j is a 0-based index
RECURSIVE SkipSpaceLeft(_, _)
SkipSpaceLeft(line_text, j) ==
    IF j >= 0 /\ isspace(line_text[j + 1]) THEN SkipSpaceLeft(line_text, j - 1) ELSE j

inherits_context_at(line_text, start_idx) ==
    LET j == SkipSpaceLeft(line_text, start_idx - 1)
    IN IF j < 0 THEN TRUE ELSE line_text[j + 1] \in {",", ";"}

(***************************************************************************)
(* build_line_text_and_map(chars, sup_ratio = 0.85).  A character record   *)
(* is [c, rect, size].                                                     *)
(***************************************************************************)
SupRatioNum == 85

SupRatioDen == 100

\* x["c"].strip() and x["size"]
CountsForBase(x) == x.c # "" /\ ~isspace(x.c) /\ x.size # 0

RECURSIVE SizesOf(_)
SizesOf(chars) ==
    IF Len(chars) = 0 THEN <<>>
    ELSE SizesOf(SubSeq(chars, 1, Len(chars) - 1))
         \o (IF CountsForBase(chars[Len(chars)]) THEN <<chars[Len(chars)].size>> ELSE <<>>)

Less(a, b) == a < b

\* Base2 with statistics.median_low for statistics.median: of two middle
\* values the lower one
Base2_MedianLow(chars) ==
    LET srt == SortSeq(SizesOf(chars), Less)
        n == Len(srt)
    IN IF n = 0 THEN 0 ELSE 2 * srt[(n + 1) \div 2]

\* twice statistics.median(sizes), twice 0.0 when there is no size: the middle
\* value, or the mean of the two middle values, of the sorted sizes
Base2(chars) ==
    LET srt == SortSeq(SizesOf(chars), Less)
        n == Len(srt)
    IN IF n = 0 THEN 0
       ELSE IF n % 2 = 1 THEN 2 * srt[(n + 1) \div 2]
       ELSE srt[n \div 2] + srt[(n \div 2) + 1]

\* is_small with <= for <
is_small_Inclusive(x, base2) ==
    base2 > 0 /\ 2 * SupRatioDen * x.size <= SupRatioNum * base2

\* is_small: base > 0 and x["size"] < sup_ratio * base, with base = base2 / 2
is_small(x, base2) == base2 > 0 /\ 2 * SupRatioDen * x.size < SupRatioNum * base2

EmptyAcc == [line_text |-> <<>>, char_rects |-> <<>>, removed_sup |-> 0]

\* LoopBody appending the rectangle before it decides to drop the character
LoopBody_RectFirst(acc, x, base2) ==
    IF x.c = "" THEN acc
    ELSE IF x.c \in {"[", "]"}
         THEN [acc EXCEPT !.removed_sup = @ + 1, !.char_rects = Append(@, x.rect)]
    ELSE IF is_small(x, base2) /\ isdigit(x.c)
         THEN [acc EXCEPT !.removed_sup = @ + 1, !.char_rects = Append(@, x.rect)]
    ELSE [acc EXCEPT !.line_text = Append(@, x.c), !.char_rects = Append(@, x.rect)]

\* one pass of the for loop over chars, on the accumulated
\* (line_text_parts, char_rects, removed_sup)
LoopBody(acc, x, base2) ==
    IF x.c = "" THEN acc
    ELSE IF x.c \in {"[", "]"} THEN [acc EXCEPT !.removed_sup = @ + 1]
    ELSE IF is_small(x, base2) /\ isdigit(x.c) THEN [acc EXCEPT !.removed_sup = @ + 1]
    ELSE [acc EXCEPT !.line_text = Append(@, x.c), !.char_rects = Append(@, x.rect)]

\* the for loop over chars[1..n] with the line's base
RECURSIVE NormLoop(_, _, _)
NormLoop(chars, n, base2) ==
    IF n = 0 THEN EmptyAcc
    ELSE LoopBody(NormLoop(chars, n - 1, base2), chars[n], base2)

build_line_text_and_map(chars) == NormLoop(chars, Len(chars), Base2(chars))

(***************************************************************************)
(* The token loop's body (add_links, lines 206-252): what one token does   *)
(* to (url, current_book, current_chap).                                   *)
(***************************************************************************)
NoUrl == <<>>

\* truth value of a book code or None
TruthyBook(b) == b # None /\ b # ""

\* truth value of a chapter number or None: 0 is false
TruthyInt(n) == n # NoInt /\ n # 0

\* what a token without a reference does: no url, nothing changed
Skip(current_book, current_chap) ==
    [url |-> NoUrl, book |-> current_book, chap |-> current_chap, rule |-> None]

\* ResolveFull giving no link to a reference without a verse
ResolveFull_NeedsVerse(fm, current_book, current_chap) ==
    LET code == abbr_to_code_get(fm.book)
        chap == int(fm.chap)
    IN IF ~TruthyBook(code) THEN Skip(current_book, current_chap)
       ELSE [url |-> IF fm.v1 = <<>>
                     THEN NoUrl
                     ELSE make_url(code, chap, int(fm.v1), OptInt(fm.v2)),
             book |-> code, chap |-> chap, rule |-> "FULL"]

\* lines 214-229: the token matches full_re
ResolveFull(fm, current_book, current_chap) ==
    LET code == abbr_to_code_get(fm.book)
        chap == int(fm.chap)
    IN IF ~TruthyBook(code) THEN Skip(current_book, current_chap)
       ELSE [url |-> IF fm.v1 = <<>>
                     THEN make_url(code, chap, NoInt, NoInt)
                     ELSE make_url(code, chap, int(fm.v1), OptInt(fm.v2)),
             book |-> code, chap |-> chap, rule |-> "FULL"]

\* ResolveChapVerse leaving current_chap as it was
ResolveChapVerse_KeepsChap(cv, current_book, current_chap) ==
    [url |-> make_url(current_book, int(cv.chap), int(cv.v1), OptInt(cv.v2)),
     book |-> current_book, chap |-> current_chap, rule |-> "CHAP:VERSE"]

\* lines 234-240: chapverse_re matched and a book is set
ResolveChapVerse(cv, current_book, current_chap) ==
    [url |-> make_url(current_book, int(cv.chap), int(cv.v1), OptInt(cv.v2)),
     book |-> current_book, chap |-> int(cv.chap), rule |-> "CHAP:VERSE"]

\* ResolveVerseOnly taking its verse for the new chapter
ResolveVerseOnly_SetsChap(vo, current_book, current_chap) ==
    [url |-> make_url(current_book, current_chap, int(vo.v1), OptInt(vo.v2)),
     book |-> current_book, chap |-> int(vo.v1), rule |-> "VERSE_ONLY_INHERIT"]

\* lines 246-249: verseonly_re matched, book and chapter are set and the
\* token may inherit
ResolveVerseOnly(vo, current_book, current_chap) ==
    [url |-> make_url(current_book, current_chap, int(vo.v1), OptInt(vo.v2)),
     book |-> current_book, chap |-> current_chap, rule |-> "VERSE_ONLY_INHERIT"]

\* Resolve setting the chapter of a CHAPTER:VERSE token before it looks for
\* the book
Resolve_ChapBeforeBook(token_clean, line_text, s, current_book, current_chap) ==
    LET fm == full_re_match(token_clean)
        cv == chapverse_re_match(token_clean)
        vo == verseonly_re_match(token_clean)
    IN IF fm.ok THEN ResolveFull(fm, current_book, current_chap)
       ELSE IF cv.ok /\ TruthyBook(current_book)
            THEN ResolveChapVerse(cv, current_book, current_chap)
       ELSE IF cv.ok THEN Skip(current_book, int(cv.chap))
       ELSE IF /\ vo.ok
               /\ TruthyBook(current_book)
               /\ TruthyInt(current_chap)
               /\ inherits_context_at(line_text, s)
            THEN ResolveVerseOnly(vo, current_book, current_chap)
       ELSE Skip(current_book, current_chap)

\* Resolve linking a CHAPTER:VERSE token whether or not a book is set
Resolve_NoBookNeeded(token_clean, line_text, s, current_book, current_chap) ==
    LET fm == full_re_match(token_clean)
        cv == chapverse_re_match(token_clean)
        vo == verseonly_re_match(token_clean)
    IN IF fm.ok THEN ResolveFull(fm, current_book, current_chap)
       ELSE IF cv.ok
            THEN ResolveChapVerse(cv, current_book, current_chap)
       ELSE IF /\ vo.ok
               /\ TruthyBook(current_book)
               /\ TruthyInt(current_chap)
               /\ inherits_context_at(line_text, s)
            THEN ResolveVerseOnly(vo, current_book, current_chap)
       ELSE Skip(current_book, current_chap)

\* lines 213-249: the three matches are tried in order
Resolve(token_clean, line_text, s, current_book, current_chap) ==
    LET fm == full_re_match(token_clean)
        cv == chapverse_re_match(token_clean)
        vo == verseonly_re_match(token_clean)
    IN IF fm.ok THEN ResolveFull(fm, current_book, current_chap)
       ELSE IF cv.ok /\ TruthyBook(current_book)
            THEN ResolveChapVerse(cv, current_book, current_chap)
       ELSE IF /\ vo.ok
               /\ TruthyBook(current_book)
               /\ TruthyInt(current_chap)
               /\ inherits_context_at(line_text, s)
            THEN ResolveVerseOnly(vo, current_book, current_chap)
       ELSE Skip(current_book, current_chap)

\* lines 251-259: the link a token with this url and span adds, or none
NewLinks(pno, url, char_rects, s, e) ==
    LET rr == rect_for_span_chars(char_rects, s, e)
    IN IF url = NoUrl THEN <<>>
       ELSE IF ~RectTruthy(rr) THEN <<>>
       ELSE <<[page |-> pno, from |-> rr, uri |-> url]>>

\* insert_link passing over a link whose uri the list already holds
insert_link_Dedup(links, new) ==
    IF new # <<>> /\ \E i \in 1..Len(links) : links[i].uri = new[1].uri
    THEN links ELSE links \o new

\* line 258: page.insert_link adds the link after those inserted before
insert_link(links, new) == links \o new

\* SaveBook never saving the line's book
SaveBook_Never(ctx_book, current_book) == ctx_book

\* lines 261-265: the context saved for the next line
SaveBook(ctx_book, current_book) ==
    IF current_book # None THEN current_book ELSE ctx_book

SaveChap(ctx_chap, current_chap) ==
    IF current_chap # NoInt THEN current_chap ELSE ctx_chap

\* the line starting without a book
StartBook_Reset(ctx_book) == None

\* lines 200-202: the line starts with the previous context
StartBook(ctx_book) == ctx_book

StartChap(ctx_chap) == ctx_chap

(***************************************************************************)
(* Inputs.  A character record gets its rectangle from its place in the    *)
(* line: 5 units wide, as high as its font size.                           *)
(***************************************************************************)
MaxPages == 2

MaxLines == 2

MaxNormLen == 3

Sized(cs, size) == [i \in 1..Len(cs) |-> [c |-> cs[i], size |-> size]]

RectAt(i, size) == <<50 * (i - 1), 0, 50 * i, 10 * size>>

Place(gs) == [i \in 1..Len(gs) |->
                 [c |-> gs[i].c, size |-> gs[i].size, rect |-> RectAt(i, gs[i].size)]]

\* how a line begins: nothing, "Mt 7:3", "Jn 1", "21:6", "0:0", "11", "x",
\* at size 10
Heads ==
    { <<>>,
      Sized(<<"M", "t", " ", "7", ":", "3">>, 10),
      Sized(<<"J", "n", " ", "1">>, 10),
      Sized(<<"2", "1", ":", "6">>, 10),
      Sized(<<"0", ":", "0">>, 10),
      Sized(<<"1", "1">>, 10),
      Sized(<<"x">>, 10) }

\* how it goes on: nothing, ",11", " 6-0", "-8", and a footnote digit 5 at
\* size 6 followed by a superscript 3 and a comma
Tails ==
    { <<>>,
      Sized(<<",", "1", "1">>, 10),
      Sized(<<" ", "6", "-", "0">>, 10),
      Sized(<<"-", "8">>, 10),
      Sized(<<"5">>, 6) \o Sized(<<"sup3", ",">>, 10) }

\* the lines line_chars_from_rawdict yields
InputLines == {Place(h \o t) : h \in Heads, t \in Tails}

\* line 198 and line 205 on one line of characters
Prepare(chars) ==
    LET b == build_line_text_and_map(chars)
    IN [line_text |-> b.line_text, char_rects |-> b.char_rects,
        toks |-> token_re_finditer(b.line_text)]

PreparedLines == {Prepare(chars) : chars \in InputLines \ {<<>>}}

\* the records of the lines the normalizer is stepped through: every line of
\* at most MaxNormLen of them
NormGlyphs ==
    {[c |-> g, size |-> z] : g \in {"1", "]", "x", "sup3"}, z \in {0, 16, 17, 20}}
    \cup {[c |-> " ", size |-> 20], [c |-> "", size |-> 20]}

MaxSpaces == 2

\* k spaces at size 10
Spaces(k) == [i \in 1..k |-> [c |-> " ", size |-> 10]]

\* lines with one reference that names its book: nothing or "x," first, then
\* an abbreviation of the table, at most MaxSpaces spaces, and "7", "7:3" or
\* "7:3-5"
AbbrLines ==
    { Place(p \o Sized(abbr_to_code[i][1], 10) \o Spaces(k) \o t) :
        p \in {<<>>, Sized(<<"x", ",">>, 10)},
        i \in 1..Len(abbr_to_code),
        k \in 0..MaxSpaces,
        t \in { Sized(<<"7">>, 10), Sized(<<"7", ":", "3">>, 10),
                 Sized(<<"7", ":", "3", "-", "5">>, 10) } }

\* lines that name no book: "8:1" and "9"
FollowLines == { Place(Sized(<<"8", ":", "1">>, 10)), Place(Sized(<<"9">>, 10)) }

MaxDocSize == 3

\* the lines of a document: an empty one, "Jn 2", "5 Jn 1" and "2:1,x 4"
DocLineKinds ==
    { <<>>,
      Place(Sized(<<"J", "n", " ", "2">>, 10)),
      Place(Sized(<<"5", " ", "J", "n", " ", "1">>, 10)),
      Place(Sized(<<"2", ":", "1", ",", "x", " ", "4">>, 10)) }

\* line 198 and line 205 on each line of a document that has characters
PreparedDoc == [l \in DocLineKinds \ {<<>>} |-> Prepare(l)]

\* what a document is written as: its lines in order, a break where the next
\* page begins
DocItems ==
    {[break |-> TRUE, chars |-> <<>>]}
    \cup {[break |-> FALSE, chars |-> l] : l \in DocLineKinds}

\* the pages of a document written as items: at least one page
RECURSIVE PagesOf(_)
PagesOf(items) ==
    IF Len(items) = 0 THEN << <<>> >>
    ELSE LET ps == PagesOf(SubSeq(items, 1, Len(items) - 1))
             x == items[Len(items)]
         IN IF x.break THEN Append(ps, <<>>)
            ELSE [ps EXCEPT ![Len(ps)] = Append(@, x.chars)]

\* the lines of the first p pages of d
RECURSIVE LinesBefore(_, _)
LinesBefore(d, p) == IF p <= 0 THEN 0 ELSE LinesBefore(d, p - 1) + Len(d[p])

MaxRects == 3

\* character rectangles: three with an area, one of no width, one of no height
GlyphRects == { <<0, 0, 50, 100>>, <<50, 20, 100, 120>>, <<100, 0, 150, 60>>,
                <<70, 0, 70, 100>>, <<200, 50, 250, 50>> }

MaxMark == 2

\* a footnote marker: the digit 5 at size 6, a superscript 3 at size 6 and a
\* superscript 3 at the size of the text
MarkGlyphs == {[c |-> "5", size |-> 6], [c |-> "sup3", size |-> 6],
               [c |-> "sup3", size |-> 10]}

\* the references a marker run follows: "6:14", "Mt 7", "11", at size 10
MarkBases == { Sized(<<"6", ":", "1", "4">>, 10),
               Sized(<<"M", "t", " ", "7">>, 10),
               Sized(<<"1", "1">>, 10) }

\* lines with footnote markers: nothing or "Jn 1," first, then a reference, a
\* run of at most MaxMark markers, then nothing or "-8"
MarkLines ==
    UNION { { Place(p \o b \o [i \in 1..n |-> ms[i]] \o f) :
                p \in {<<>>, Sized(<<"J", "n", " ", "1", ",">>, 10)},
                b \in MarkBases,
                ms \in [1..n -> MarkGlyphs],
                f \in {<<>>, Sized(<<"-", "8">>, 10)} } : n \in 0..MaxMark }


(***************************************************************************)
(* State.                                                                  *)
(***************************************************************************)
VARIABLES
    pc,            \* "lines": between lines; "tokens": in the token loop;
                   \* "done": add_links returned; "norm", "normdone": in and
                   \* after build_line_text_and_map stepped on its own
    pno,           \* index of the current page, NoInt before the first
    nlines,        \* lines taken from line_chars_from_rawdict so far
    line_text, char_rects,
    toks, ti,      \* the matches of finditer and the index of the next one
    current_book, current_chap,
    ctx_book, ctx_chap,
    links,         \* the links inserted, in order: [page, from, uri]
    total_added,
    last,          \* history: the token processed by the latest step
    hist_book,     \* history: code of the latest FULL token
    hist_chap,     \* history: chapter digits of the latest FULL or linked
                   \* CHAPTER:VERSE token, <<>> before the first
    seen,          \* history: whether this line has had a FULL token, and a
                   \* linked CHAPTER:VERSE token
    nchars, ni, nacc,  \* the normalizer's input line, loop index and accumulator
    doc,           \* the document a whole call runs over: pages of lines
    run,           \* which call of add_links on doc this is, 1 or 2
    first,         \* what the first call returned and left
    trail          \* history: the tokens this call has processed, in order,
                   \* each <<page, lines taken so far, index in the line>>

vars == <<pc, pno, nlines, line_text, char_rects, toks, ti, current_book,
          current_chap, ctx_book, ctx_chap, links, total_added, last, hist_book,
          hist_chap, seen, nchars, ni, nacc, doc, run, first, trail>>

travVars == <<pno, nlines, line_text, char_rects, toks, ti, current_book,
              current_chap, ctx_book, ctx_chap, links, total_added, last,
              hist_book, hist_chap, seen>>

normVars == <<nchars, ni, nacc>>

docVars == <<doc, run, first, trail>>

\* the grammar a noise-stripped token belongs to, first match first
Kind(token_clean) ==
    IF full_re_match(token_clean).ok THEN "FULL"
    ELSE IF chapverse_re_match(token_clean).ok THEN "CV"
    ELSE IF verseonly_re_match(token_clean).ok THEN "VO"
    ELSE "other"

NoLast == [kind |-> "none", clean |-> <<>>, s |-> 0, e |-> 0, text |-> <<>>,
           book0 |-> None, chap0 |-> NoInt, n0 |-> 0, hb0 |-> None, hc0 |-> <<>>]

NoneSeen == [full |-> FALSE, cv |-> FALSE]

\* a group of digits without its leading zeros
RECURSIVE Canon(_)
Canon(ds) == IF Len(ds) > 1 /\ ds[1] = "0" THEN Canon(Tail(ds)) ELSE ds

TravInit ==
    /\ pno = NoInt
    /\ nlines = 0
    /\ line_text = <<>>
    /\ char_rects = <<>>
    /\ toks = <<>>
    /\ ti = 1
    /\ current_book = None
    /\ current_chap = NoInt
    /\ ctx_book = None
    /\ ctx_chap = NoInt
    /\ links = <<>>
    /\ total_added = 0
    /\ last = NoLast
    /\ hist_book = None
    /\ hist_chap = <<>>
    /\ seen = NoneSeen

NormIdle == nchars = <<>> /\ ni = 0 /\ nacc = EmptyAcc

NoFirst == [links |-> <<>>, total_added |-> 0, ctx_book |-> None, ctx_chap |-> NoInt]

DocIdle == doc = <<>> /\ run = 1 /\ first = NoFirst /\ trail = <<>>

Init == pc = "lines" /\ TravInit /\ NormIdle /\ DocIdle

(***************************************************************************)
(* add_links: the loops over pages, lines and tokens.                      *)
(***************************************************************************)
\* line 188: the next page of the document
NextPage ==
    /\ pc = "lines"
    /\ pno + 1 < MaxPages
    /\ pno' = pno + 1
    /\ UNCHANGED <<pc, nlines, line_text, char_rects, toks, ti, current_book,
                   current_chap, ctx_book, ctx_chap, links, total_added, last,
                   hist_book, hist_chap, seen>>
    /\ UNCHANGED normVars
    /\ UNCHANGED docVars

\* lines 191-193: a line without characters is passed over
SkipEmptyLine ==
    /\ pc = "lines"
    /\ pno >= 0
    /\ nlines < MaxLines
    /\ <<>> \in InputLines
    /\ nlines' = nlines + 1
    /\ UNCHANGED <<pc, pno, line_text, char_rects, toks, ti, current_book,
                   current_chap, ctx_book, ctx_chap, links, total_added, last,
                   hist_book, hist_chap, seen>>
    /\ UNCHANGED normVars
    /\ UNCHANGED docVars

\* lines 191-205: the next line is normalized, starts with the saved context
\* and is scanned for tokens
StartLine ==
    /\ pc = "lines"
    /\ pno >= 0
    /\ nlines < MaxLines
    /\ \E ln \in PreparedLines :
          /\ line_text' = ln.line_text
          /\ char_rects' = ln.char_rects
          /\ toks' = ln.toks
    /\ ti' = 1
    /\ current_book' = StartBook(ctx_book)
    /\ current_chap' = StartChap(ctx_chap)
    /\ nlines' = nlines + 1
    /\ pc' = "tokens"
    /\ last' = NoLast
    /\ seen' = NoneSeen
    /\ UNCHANGED <<pno, ctx_book, ctx_chap, links, total_added, hist_book, hist_chap>>
    /\ UNCHANGED normVars
    /\ UNCHANGED docVars

\* lines 205-259: one pass of the token loop, on the state of add_links; sp,
\* token_clean, r, new and kind are each worked out once
TokenStep ==
    /\ pc = "tokens"
    /\ ti <= Len(toks)
    /\ \E sp \in {toks[ti]} :
       \E token_clean \in {SUPDIG_RE_sub(TokenText(line_text, sp))} :
       \E r \in {Resolve(token_clean, line_text, sp.s, current_book, current_chap)} :
       \E new \in {NewLinks(pno, r.url, char_rects, sp.s, sp.e)} :
       \E kind \in {Kind(token_clean)} :
          /\ current_book' = r.book
          /\ current_chap' = r.chap
          /\ links' = insert_link(links, new)
          /\ total_added' = IF new # <<>> THEN total_added + 1 ELSE total_added
          /\ last' = [kind |-> kind, clean |-> token_clean, s |-> sp.s, e |-> sp.e,
                      text |-> line_text, book0 |-> current_book,
                      chap0 |-> current_chap, n0 |-> Len(links),
                      hb0 |-> hist_book, hc0 |-> hist_chap]
          /\ hist_book' = IF kind = "FULL"
                          THEN abbr_to_code_get(full_re_match(token_clean).book)
                          ELSE hist_book
          /\ hist_chap' = IF kind = "FULL" THEN Canon(full_re_match(token_clean).chap)
                          ELSE IF kind = "CV" /\ new # <<>>
                               THEN Canon(chapverse_re_match(token_clean).chap)
                               ELSE hist_chap
          /\ seen' = [full |-> seen.full \/ kind = "FULL",
                      cv |-> seen.cv \/ (kind = "CV" /\ new # <<>>)]
    /\ ti' = ti + 1
    /\ UNCHANGED <<pc, pno, nlines, line_text, char_rects, toks, ctx_book, ctx_chap>>
    /\ UNCHANGED normVars

\* lines 205-259: one pass of the token loop
ProcessToken == TokenStep /\ UNCHANGED docVars

\* lines 261-265: after the last token the context is saved for the next line
EndLine ==
    /\ pc = "tokens"
    /\ ti > Len(toks)
    /\ ctx_book' = SaveBook(ctx_book, current_book)
    /\ ctx_chap' = SaveChap(ctx_chap, current_chap)
    /\ pc' = "lines"
    /\ line_text' = <<>>
    /\ char_rects' = <<>>
    /\ toks' = <<>>
    /\ ti' = 1
    /\ last' = NoLast
    /\ seen' = NoneSeen
    /\ UNCHANGED <<pno, nlines, current_book, current_chap, links, total_added,
                   hist_book, hist_chap>>
    /\ UNCHANGED normVars
    /\ UNCHANGED docVars

\* line 267: no page is left
Return ==
    /\ pc = "lines"
    /\ pc' = "done"
    /\ UNCHANGED travVars
    /\ UNCHANGED normVars
    /\ UNCHANGED docVars

Next == NextPage \/ SkipEmptyLine \/ StartLine \/ ProcessToken \/ EndLine \/ Return

Spec == Init /\ [][Next]_vars

(***************************************************************************)
(* build_line_text_and_map stepped through its for loop on one line.       *)
(***************************************************************************)
NormInit ==
    /\ pc = "norm"
    /\ TravInit
    /\ \E n \in 0..MaxNormLen : \E gs \in [1..n -> NormGlyphs] : nchars = Place(gs)
    /\ ni = 0
    /\ nacc = EmptyAcc
    /\ DocIdle

\* lines 130-148: one pass of the loop
NormIter ==
    /\ pc = "norm"
    /\ ni < Len(nchars)
    /\ nacc' = LoopBody(nacc, nchars[ni + 1], Base2(nchars))
    /\ ni' = ni + 1
    /\ UNCHANGED <<pc, nchars>>
    /\ UNCHANGED travVars
    /\ UNCHANGED docVars

\* lines 150-151: the result is returned
NormReturn ==
    /\ pc = "norm"
    /\ ni = Len(nchars)
    /\ pc' = "normdone"
    /\ UNCHANGED normVars
    /\ UNCHANGED travVars
    /\ UNCHANGED docVars

NormNext == NormIter \/ NormReturn

SpecNorm == NormInit /\ [][NormNext]_vars

(***************************************************************************)
(* add_links called twice on one document: the loops run over the pages    *)
(* and lines of doc, in order.                                             *)
(***************************************************************************)
DocInit ==
    /\ pc = "lines"
    /\ TravInit
    /\ NormIdle
    /\ \E n \in 0..MaxDocSize : \E f \in [1..n -> DocItems] : doc = PagesOf(f)
    /\ run = 1
    /\ first = NoFirst
    /\ trail = <<>>

\* the lines of the current page taken so far
Taken == nlines - LinesBefore(doc, pno)

\* line 191: the current page has a line left
HasLine == pno >= 0 /\ Taken < Len(doc[pno + 1])

NextLine == doc[pno + 1][Taken + 1]

\* line 188: the lines of the page are used up and another page follows
DocNextPage ==
    /\ pc = "lines"
    /\ ~HasLine
    /\ pno + 1 < Len(doc)
    /\ pno' = pno + 1
    /\ UNCHANGED <<pc, nlines, line_text, char_rects, toks, ti, current_book,
                   current_chap, ctx_book, ctx_chap, links, total_added, last,
                   hist_book, hist_chap, seen>>
    /\ UNCHANGED normVars
    /\ UNCHANGED docVars

\* lines 191-193: the next line of the page has no characters
DocSkipEmptyLine ==
    /\ pc = "lines"
    /\ HasLine
    /\ NextLine = <<>>
    /\ nlines' = nlines + 1
    /\ UNCHANGED <<pc, pno, line_text, char_rects, toks, ti, current_book,
                   current_chap, ctx_book, ctx_chap, links, total_added, last,
                   hist_book, hist_chap, seen>>
    /\ UNCHANGED normVars
    /\ UNCHANGED docVars

\* lines 191-205: the next line of the page has characters
DocStartLine ==
    /\ pc = "lines"
    /\ HasLine
    /\ NextLine # <<>>
    /\ line_text' = PreparedDoc[NextLine].line_text
    /\ char_rects' = PreparedDoc[NextLine].char_rects
    /\ toks' = PreparedDoc[NextLine].toks
    /\ ti' = 1
    /\ current_book' = StartBook(ctx_book)
    /\ current_chap' = StartChap(ctx_chap)
    /\ nlines' = nlines + 1
    /\ pc' = "tokens"
    /\ last' = NoLast
    /\ seen' = NoneSeen
    /\ UNCHANGED <<pno, ctx_book, ctx_chap, links, total_added, hist_book, hist_chap>>
    /\ UNCHANGED normVars
    /\ UNCHANGED docVars

\* lines 205-259: one pass of the token loop
DocProcessToken ==
    /\ TokenStep
    /\ trail' = Append(trail, <<pno, nlines, ti>>)
    /\ UNCHANGED <<doc, run, first>>

\* line 267, returning from inside the loop over the pages
DocReturn_Early ==
    /\ pc = "lines"
    /\ pc' = "done"
    /\ UNCHANGED travVars
    /\ UNCHANGED normVars
    /\ UNCHANGED docVars

\* line 267: the last line of the last page is done
DocReturn ==
    /\ pc = "lines"
    /\ ~HasLine
    /\ pno + 1 >= Len(doc)
    /\ pc' = "done"
    /\ UNCHANGED travVars
    /\ UNCHANGED normVars
    /\ UNCHANGED docVars

\* the second call: what the first one returned and left is noted, and the
\* locals of add_links start as lines 181-186 set them, the Context as given
CallWith(book, chap) ==
    /\ pc = "done"
    /\ run = 1
    /\ first' = [links |-> links, total_added |-> total_added,
                 ctx_book |-> ctx_book, ctx_chap |-> ctx_chap]
    /\ run' = 2
    /\ trail' = <<>>
    /\ pc' = "lines"
    /\ pno' = NoInt
    /\ nlines' = 0
    /\ line_text' = <<>>
    /\ char_rects' = <<>>
    /\ toks' = <<>>
    /\ ti' = 1
    /\ current_book' = None
    /\ current_chap' = NoInt
    /\ ctx_book' = book
    /\ ctx_chap' = chap
    /\ links' = <<>>
    /\ total_added' = 0
    /\ last' = NoLast
    /\ hist_book' = None
    /\ hist_chap' = <<>>
    /\ seen' = NoneSeen
    /\ UNCHANGED doc
    /\ UNCHANGED normVars

\* the second call starting with the Context the first call ended in
DocCall_KeepsContext == run = 1 /\ CallWith(ctx_book, ctx_chap)

\* lines 180-186: add_links is called again on the same document
DocCall == run = 1 /\ CallWith(None, NoInt)

DocNext ==
    \/ DocNextPage
    \/ DocSkipEmptyLine
    \/ DocStartLine
    \/ DocProcessToken
    \/ EndLine
    \/ DocReturn
    \/ DocCall

SpecDoc == DocInit /\ [][DocNext]_vars

\* line 205: the token loop goes on from the token at ti to the one after it.
\* In the token loop with a token left, this and DocProcessToken are the one
\* step there is.
TokenLoopStep == pc = "tokens" /\ ti <= Len(toks) /\ ti' = ti + 1

\* a sequential program: the step it can take, it takes
FairSpecDoc ==
    /\ DocInit
    /\ [][DocNext]_vars
    /\ WF_vars(DocNextPage)
    /\ WF_vars(DocSkipEmptyLine)
    /\ WF_vars(DocStartLine)
    /\ WF_ti(TokenLoopStep)
    /\ WF_vars(EndLine)
    /\ WF_vars(DocReturn)
    /\ WF_vars(DocCall)

(***************************************************************************)
(* Lines 254-259 on one span of an array of character rectangles: the      *)
(* rectangle of the span and the link it gets.                             *)
(***************************************************************************)
RectInit ==
    /\ pc = "rect"
    /\ pno = 0
    /\ nlines = 0
    /\ line_text = <<>>
    /\ \E n \in 0..MaxRects : char_rects \in [1..n -> GlyphRects]
    /\ \E s \in 0..(MaxRects + 1) : \E e \in 0..(MaxRects + 1) :
          toks = <<[s |-> s, e |-> e]>>
    /\ ti = 1
    /\ current_book = None
    /\ current_chap = NoInt
    /\ ctx_book = None
    /\ ctx_chap = NoInt
    /\ links = <<>>
    /\ total_added = 0
    /\ last = NoLast
    /\ hist_book = None
    /\ hist_chap = <<>>
    /\ seen = NoneSeen
    /\ NormIdle
    /\ DocIdle

\* lines 254-259 for a token that has a url
RectLink ==
    /\ pc = "rect"
    /\ LET new == NewLinks(pno, make_url("mat", 7, NoInt, NoInt), char_rects,
                           toks[ti].s, toks[ti].e)
       IN /\ links' = insert_link(links, new)
          /\ total_added' = IF new # <<>> THEN total_added + 1 ELSE total_added
    /\ ti' = ti + 1
    /\ pc' = "rectdone"
    /\ UNCHANGED <<pno, nlines, line_text, char_rects, toks, current_book,
                   current_chap, ctx_book, ctx_chap, last, hist_book, hist_chap, seen>>
    /\ UNCHANGED normVars
    /\ UNCHANGED docVars

RectNext == RectLink

SpecRect == RectInit /\ [][RectNext]_vars

(***************************************************************************)
(* add_links on a document of one line that carries footnote markers; the  *)
(* line's records are kept in nchars.                                      *)
(***************************************************************************)
\* lines 191-205 on a line of the set S
StartLineFrom(S) ==
    /\ pc = "lines"
    /\ pno >= 0
    /\ \E chars \in S :
          /\ nchars' = chars
          /\ line_text' = Prepare(chars).line_text
          /\ char_rects' = Prepare(chars).char_rects
          /\ toks' = Prepare(chars).toks
    /\ ti' = 1
    /\ current_book' = StartBook(ctx_book)
    /\ current_chap' = StartChap(ctx_chap)
    /\ nlines' = nlines + 1
    /\ pc' = "tokens"
    /\ last' = NoLast
    /\ seen' = NoneSeen
    /\ UNCHANGED <<pno, ctx_book, ctx_chap, links, total_added, hist_book, hist_chap>>
    /\ UNCHANGED <<ni, nacc>>
    /\ UNCHANGED docVars

StartMarkedLine == nlines = 0 /\ StartLineFrom(MarkLines)

MarkNext == NextPage \/ StartMarkedLine \/ ProcessToken \/ EndLine \/ Return

SpecMark == Init /\ [][MarkNext]_vars

(***************************************************************************)
(* add_links on a document of a line that names a book and then a line     *)
(* that names none; the line's records are kept in nchars.                 *)
(***************************************************************************)
StartAbbrLine == nlines = 0 /\ StartLineFrom(AbbrLines)

StartFollowLine == nlines = 1 /\ StartLineFrom(FollowLines)

AbbrNext ==
    \/ NextPage
    \/ StartAbbrLine
    \/ StartFollowLine
    \/ ProcessToken
    \/ EndLine
    \/ Return

SpecAbbr == Init /\ [][AbbrNext]_vars

(***************************************************************************)
(* Properties of the traversal (Spec).                                     *)
(***************************************************************************)
\* the latest step processed a token and that token added a link
Emitted == last.kind # "none" /\ Len(links) = last.n0 + 1

LastLink == links[Len(links)]

\* the book and the chapter digits of a uri
UriBook(u) == u[2]

UriChap(u) == SubSeq(u, 4, RunEnd(u, 4, DigitSet) - 1)

\* a context chapter stands for the chapter digits ds
SameChap(chap, ds) == IF ds = <<>> THEN chap = NoInt ELSE chap # NoInt /\ str(chap) = ds

\* the uri of book, chapter digits c and verse digits v1, v2 (<<>> when absent)
ExpUri(book, c, v1, v2) ==
    <<Base, book, ".">> \o Canon(c)
        \o (IF v1 = <<>> THEN <<>> ELSE <<".">> \o Canon(v1))
        \o (IF v1 = <<>> \/ v2 = <<>> THEN <<>> ELSE <<"-">> \o Canon(v2))

\* scanning left from 0-based position s over whitespace reaches the start of
\* the line or a comma or semicolon
Gate(t, s) ==
    LET P == {j \in 1..s : t[j] # " "}
    IN P = {} \/ t[CHOOSE j \in P : \A k \in P : k <= j] \in {",", ";"}

\* C1: in the token loop the working context, and between lines the saved
\* Context, is the book of the latest FULL token and the chapter of the latest
\* FULL or linked CHAPTER:VERSE token of the whole traversal so far, on
\* whatever line or page that token was; the uri of a linked CHAPTER:VERSE
\* token has that book, the uri of a linked VERSE_ONLY token has that book and
\* that chapter.
C1_ContextFromLatestToken ==
    /\ pc = "tokens" => current_book = hist_book /\ SameChap(current_chap, hist_chap)
    /\ pc \in {"lines", "done"} => ctx_book = hist_book /\ SameChap(ctx_chap, hist_chap)
    /\ Emitted /\ last.kind = "CV" => UriBook(LastLink.uri) = last.hb0
    /\ Emitted /\ last.kind = "VO" =>
          UriBook(LastLink.uri) = last.hb0 /\ UriChap(LastLink.uri) = last.hc0

\* "Mt 7:3" on page 0, then a line of page 1 that begins with 11: mat.7.11
C1_Witness ==
    /\ Emitted /\ last.kind = "VO" /\ last.s = 0
    /\ Len(links) = 2
    /\ links[1].page = 0 /\ links[2].page = 1
    /\ links[2].uri = <<Base, "mat", ".", "7", ".", "1", "1">>

\* C2: a set Context field is never unset again; Context changes only in the
\* step that ends a line; the book changes only at the end of a line that had a
\* FULL token, the chapter only at the end of a line that had a FULL or a
\* linked CHAPTER:VERSE token.
C2_ContextWrittenAtLineEnd ==
    [][ /\ ctx_book # None => ctx_book' # None
        /\ ctx_chap # NoInt => ctx_chap' # NoInt
        /\ <<ctx_book, ctx_chap>>' # <<ctx_book, ctx_chap>> =>
              pc = "tokens" /\ ti > Len(toks) /\ pc' = "lines"
        /\ ctx_book' # ctx_book => seen.full
        /\ ctx_chap' # ctx_chap => seen.full \/ seen.cv ]_vars

\* the second line replaced book mat, chapter 7 by jhn, 1
C2_Witness ==
    /\ pc = "lines" /\ nlines = 2
    /\ ctx_book = "jhn" /\ ctx_chap = 1
    /\ Len(links) = 2 /\ UriBook(links[1].uri) = "mat"

\* C3: after a FULL token the current book is the code of its abbreviation and
\* the current chapter is its chapter, and the token added one link whose uri is
\* built from its own fields; "Mt 7:3" gives (mat, 7) and mat.7.3.
C3_FullSetsContextAndLinks ==
    last.kind = "FULL" =>
        LET fm == full_re_match(last.clean)
        IN /\ current_book = abbr_to_code_get(fm.book)
           /\ current_book # None
           /\ SameChap(current_chap, Canon(fm.chap))
           /\ Emitted
           /\ LastLink.uri = ExpUri(current_book, fm.chap, fm.v1, fm.v2)
           /\ last.clean = <<"M", "t", " ", "7", ":", "3">> =>
                 /\ current_book = "mat" /\ current_chap = 7
                 /\ LastLink.uri = <<Base, "mat", ".", "7", ".", "3">>

\* "Jn 1" met with context (mat, 7): a chapter-level link
C3_Witness ==
    /\ last.kind = "FULL" /\ last.clean = <<"J", "n", " ", "1">>
    /\ last.book0 = "mat" /\ last.chap0 = 7
    /\ LastLink.uri = <<Base, "jhn", ".", "1">>

\* C4: a CHAPTER:VERSE token met with a book set adds one link with that book
\* and its own chapter and verses and sets the current chapter; met with no
\* book it adds no link and leaves book and chapter as they were.
C4_ChapVerseNeedsBook ==
    last.kind = "CV" =>
        LET cv == chapverse_re_match(last.clean)
        IN IF last.book0 # None
           THEN /\ Emitted
                /\ LastLink.uri = ExpUri(last.book0, cv.chap, cv.v1, cv.v2)
                /\ current_book = last.book0
                /\ SameChap(current_chap, Canon(cv.chap))
           ELSE /\ Len(links) = last.n0
                /\ current_book = None
                /\ current_chap = last.chap0

\* "21:6-8" met with context (jhn, 1)
C4_Witness ==
    /\ last.kind = "CV" /\ last.clean = <<"2", "1", ":", "6", "-", "8">>
    /\ last.book0 = "jhn" /\ last.chap0 = 1
    /\ current_chap = 21
    /\ LastLink.uri = <<Base, "jhn", ".", "2", "1", ".", "6", "-", "8">>

\* C5: a bare-number token adds a link if and only if the book is set, the
\* chapter is set and the positional gate holds.
C5_VerseOnlyIffContextAndGate ==
    last.kind = "VO" =>
        (Emitted <=> /\ last.book0 # None
                     /\ last.chap0 # NoInt
                     /\ Gate(last.text, last.s))

\* C5, chapter 0 set aside: the same with a chapter other than 0
C5_ExceptChapterZero ==
    last.kind = "VO" /\ last.chap0 # 0 =>
        (Emitted <=> /\ last.book0 # None
                     /\ last.chap0 # NoInt
                     /\ Gate(last.text, last.s))

\* C6: a VERSE_ONLY token, linked or not, leaves the current book and the
\* current chapter as they were.
C6_VerseOnlyKeepsContext ==
    last.kind = "VO" => current_book = last.book0 /\ current_chap = last.chap0

\* ",11" after "x", linked with context (mat, 7)
C6_Witness ==
    /\ last.kind = "VO" /\ Emitted /\ last.s = 2
    /\ last.book0 = "mat" /\ last.chap0 = 7
    /\ LastLink.uri = <<Base, "mat", ".", "7", ".", "1", "1">>

\* the url of the token the loop is about to process
NextTokenUrl ==
    Resolve(SUPDIG_RE_sub(TokenText(line_text, toks[ti])), line_text, toks[ti].s,
            current_book, current_chap).url

\* C7: total_added is the number of links; a step that processes a token with
\* a url appends one link (page, rectangle of the token's span, that url) to
\* the list and leaves the earlier links as they are; every other step leaves
\* the list unchanged.
C7_OneLinkPerResolvedToken ==
    /\ [](total_added = Len(links))
    /\ [][ IF pc = "tokens" /\ ti <= Len(toks) /\ NextTokenUrl # NoUrl
           THEN links' = Append(links,
                    [page |-> pno,
                     from |-> rect_for_span_chars(char_rects, toks[ti].s, toks[ti].e),
                     uri |-> NextTokenUrl])
           ELSE links' = links ]_vars

\* the same reference twice on one page: two equal links, both kept
C7_Witness ==
    /\ Len(links) = 2 /\ total_added = 2
    /\ links[1] = links[2]

\* C8: the uri of every link is base/book.chapter, base/book.chapter.verse1 or
\* base/book.chapter.verse1-verse2 according to the verses the token has, a
\* verse 0 included; "Jn 1" gives jhn.1 and "21:6-8" gives book.21.6-8.
C8_ThreeUriForms ==
    Emitted =>
        LET fm == full_re_match(last.clean)
            cv == chapverse_re_match(last.clean)
            vo == verseonly_re_match(last.clean)
        IN /\ last.kind = "FULL" =>
                 LastLink.uri = ExpUri(abbr_to_code_get(fm.book), fm.chap, fm.v1, fm.v2)
           /\ last.kind = "CV" =>
                 LastLink.uri = ExpUri(last.book0, cv.chap, cv.v1, cv.v2)
           /\ last.kind = "VO" =>
                 LastLink.uri = ExpUri(last.book0, last.hc0, vo.v1, vo.v2)
           /\ last.clean = <<"J", "n", " ", "1">> =>
                 LastLink.uri = <<Base, "jhn", ".", "1">>
           /\ last.clean = <<"2", "1", ":", "6", "-", "8">> =>
                 LastLink.uri = <<Base, last.book0, ".", "2", "1", ".", "6", "-", "8">>

\* " 6-0" at the start of a line, with context (jhn, 1): a range that ends in 0
C8_Witness ==
    /\ Emitted /\ last.kind = "VO" /\ last.clean = <<"6", "-", "0">>
    /\ LastLink.uri = <<Base, "jhn", ".", "1", ".", "6", "-", "0">>

(***************************************************************************)
(* Properties of the Line Normalizer (SpecNorm).                           *)
(***************************************************************************)
\* the characters of chars[1..n] whose index is in K, in order; a record
\* without a character gives none
RECURSIVE Pick(_, _, _)
Pick(chars, n, K) ==
    IF n = 0 THEN <<>>
    ELSE Pick(chars, n - 1, K)
         \o (IF n \in K /\ chars[n].c # "" THEN <<chars[n].c>> ELSE <<>>)

\* x is rendered below 0.85 x baseline, the baseline being Base2 / 2
BelowRatio(x, chars) == Base2(chars) > 0 /\ 200 * x.size < 85 * Base2(chars)

\* C9 as stated: what the loop has kept of the records seen so far is all of
\* them but the brackets and the decimal digits 0-9 below 0.85 x baseline.
C9_DropsOnlyBracketsAndSmallDecimalDigits ==
    pc \in {"norm", "normdone"} =>
        nacc.line_text =
            Pick(nchars, ni,
                 {j \in 1..ni : /\ nchars[j].c \notin {"[", "]"}
                                /\ ~(nchars[j].c \in DigitSet /\ BelowRatio(nchars[j], nchars))})

\* C9 amended: what the loop has kept of the records seen so far is all of
\* them, in order, but the brackets and the digits below 0.85 x baseline, a
\* digit being a decimal digit 0-9 or a superscript digit.
C9_DropsBracketsAndSmallDigits ==
    pc \in {"norm", "normdone"} =>
        nacc.line_text =
            Pick(nchars, ni,
                 {j \in 1..ni : /\ nchars[j].c \notin {"[", "]"}
                                /\ ~(/\ nchars[j].c \in DigitSet \cup SupDigitSet
                                     /\ BelowRatio(nchars[j], nchars))})

\* x at 20, a superscript 3 at 16, 1 at 20: the baseline is 20 and the
\* superscript 3, below 17, is dropped
C9_Witness ==
    /\ pc = "normdone" /\ Len(nchars) = 3
    /\ nchars[1].c = "x" /\ nchars[1].size = 20
    /\ nchars[2].c = "sup3" /\ nchars[2].size = 16
    /\ nchars[3].c = "1" /\ nchars[3].size = 20
    /\ nacc.line_text = <<"x", "1">>

\* C10: after every pass of the loop the text and the rectangles have the same
\* length, and the rectangle at i is the rectangle of the record the character
\* at i came from, the records taken in their order.
C10_TextAndRectsAligned ==
    pc \in {"norm", "normdone"} =>
        /\ Len(nacc.line_text) = Len(nacc.char_rects)
        /\ \A i \in 1..Len(nacc.char_rects) :
              \E j \in 1..ni : /\ nchars[j].rect = nacc.char_rects[i]
                               /\ nchars[j].c = nacc.line_text[i]
        /\ \A i \in 1..Len(nacc.char_rects) : \A k \in 1..Len(nacc.char_rects) :
              i < k => nacc.char_rects[i][1] < nacc.char_rects[k][1]

\* a bracket dropped between two kept characters: the second rectangle is the
\* third record's
C10_Witness ==
    /\ pc = "normdone" /\ Len(nchars) = 3
    /\ nchars[2].c = "]"
    /\ Len(nacc.line_text) = 2
    /\ nacc.char_rects[2] = nchars[3].rect

(***************************************************************************)
(* Properties of the traversal of a line with footnote markers (SpecMark). *)
(***************************************************************************)
\* the index, in the line's records, of the record a rectangle belongs to
SrcIdx(r) == (r[1] \div 50) + 1

\* record j of chars is a footnote marker: a superscript digit, or a decimal
\* digit rendered below 0.85 x baseline
IsMarker(chars, j) ==
    \/ chars[j].c \in SupDigitSet
    \/ chars[j].c \in DigitSet /\ BelowRatio(chars[j], chars)

\* the records of the line from the first to the last character of the
\* latest token
LastLo == SrcIdx(char_rects[last.s + 1])

LastHi == SrcIdx(char_rects[last.e])

\* "6:14" starts at record lo and a marker follows it
SixFourteenAt(lo) ==
    /\ lo + 4 <= Len(nchars)
    /\ [i \in 1..4 |-> nchars[lo + i - 1].c] = <<"6", ":", "1", "4">>
    /\ IsMarker(nchars, lo + 4)

\* C11: the text a token is classified by is the records the token covers
\* without the footnote markers among them, so no marker digit is part of a
\* chapter or verse number; "6:14" followed by markers is CHAPTER:VERSE with
\* chapter 6 and verse 14, and so is its uri.
C11_MarkersNotInNumbers ==
    last.kind # "none" =>
        /\ last.clean =
              Pick(nchars, LastHi, {j \in LastLo..LastHi : ~IsMarker(nchars, j)})
        /\ SixFourteenAt(LastLo) =>
              /\ last.kind = "CV"
              /\ chapverse_re_match(last.clean).chap = <<"6">>
              /\ chapverse_re_match(last.clean).v1 = <<"1", "4">>
              /\ Emitted => SubSeq(LastLink.uri, 4, 7) = <<"6", ".", "1", "4">>

\* "Jn 1,6:14", a 5 at size 6 and a superscript 3: the link is jhn.6.14
C11_Witness ==
    /\ last.kind = "CV" /\ Emitted /\ SixFourteenAt(LastLo)
    /\ Len(nchars) = 11
    /\ nchars[10].c = "5" /\ nchars[10].size = 6
    /\ nchars[11].c = "sup3" /\ nchars[11].size = 10
    /\ last.e - last.s = 5
    /\ LastLink.uri = <<Base, "jhn", ".", "6", ".", "1", "4">>

(***************************************************************************)
(* Properties of the rectangle of a span (SpecRect).                       *)
(***************************************************************************)
\* the indices, 1-based, of the slice [s:e] of the array of rectangles
SliceIdx == {i \in 1..Len(char_rects) : toks[1].s < i /\ i <= toks[1].e}

\* the least and the greatest of a non-empty set of integers
MinOf(S) == CHOOSE x \in S : \A y \in S : x <= y

MaxOf(S) == CHOOSE x \in S : \A y \in S : x >= y

\* the bounding box of the rectangles at the indices I, wider by 0.3 on
\* every side
BoxOf(I) ==
    << MinOf({char_rects[i][1] : i \in I}) - 3, MinOf({char_rects[i][2] : i \in I}) - 3,
       MaxOf({char_rects[i][3] : i \in I}) + 3, MaxOf({char_rects[i][4] : i \in I}) + 3 >>

\* the rectangle has an area
HasArea(r) == r[1] < r[3] /\ r[2] < r[4]

\* C12 as stated: an empty slice gives no link; any other slice gives one
\* link whose rectangle is the bounding box of all the rectangles of the slice,
\* wider by 0.3 on every side.
C12_BoxOfWholeSlice ==
    pc = "rectdone" =>
        IF SliceIdx = {} THEN links = <<>>
        ELSE Len(links) = 1 /\ links[1].from = BoxOf(SliceIdx)

\* C12 amended: an empty slice gives no link; any other slice gives one link
\* whose rectangle is, wider by 0.3 on every side, the bounding box of the
\* rectangles of the slice that have an area, or the first rectangle of the
\* slice when none has.
C12_BoxOfRectsWithArea ==
    pc = "rectdone" =>
        LET A == {i \in SliceIdx : HasArea(char_rects[i])}
        IN IF SliceIdx = {} THEN links = <<>>
           ELSE /\ Len(links) = 1
                /\ links[1].from = IF A # {} THEN BoxOf(A) ELSE BoxOf({MinOf(SliceIdx)})

\* the span [0, 2) of a rectangle with an area and one of no width to its
\* right: the box of the first alone
C12_Witness ==
    /\ pc = "rectdone"
    /\ char_rects = << <<0, 0, 50, 100>>, <<70, 0, 70, 100>> >>
    /\ toks[1].s = 0 /\ toks[1].e = 2
    /\ Len(links) = 1 /\ links[1].from = <<0 - 3, 0 - 3, 53, 103>>

NTok(chars) == IF chars = <<>> THEN 0 ELSE Len(token_re_finditer(build_line_text_and_map(chars).line_text))

\* the lines of the first p pages of d, in order, each with its page and its
\* number among the lines of the document
RECURSIVE FlatLines(_, _)
FlatLines(d, p) ==
    IF p = 0 THEN <<>>
    ELSE LET before == FlatLines(d, p - 1)
         IN before \o [i \in 1..Len(d[p]) |->
                          [page |-> p - 1, n |-> Len(before) + i, chars |-> d[p][i]]]

\* the tokens of the first k of the lines fl, in order
RECURSIVE TokensOf(_, _)
TokensOf(fl, k) ==
    IF k = 0 THEN <<>>
    ELSE TokensOf(fl, k - 1)
         \o [t \in 1..NTok(fl[k].chars) |-> <<fl[k].page, fl[k].n, t>>]

\* every token of every line of every page of d, once, in order
AllTokens(d) == TokensOf(FlatLines(d, Len(d)), Len(FlatLines(d, Len(d))))

KthSize(chars, I, k) ==
    CHOOSE v \in {chars[i].size : i \in I} :
        /\ Cardinality({i \in I : chars[i].size < v}) < k
        /\ k <= Cardinality({i \in I : chars[i].size <= v})

\* twice the median of the font sizes of the records at the indices I, 0
\* when there is none
MedianTwice(chars, I) ==
    IF I = {} THEN 0
    ELSE KthSize(chars, I, (Cardinality(I) + 1) \div 2)
         + KthSize(chars, I, (Cardinality(I) + 2) \div 2)

\* the records of chars that are a character other than whitespace
NonSpace(chars) == {i \in 1..Len(chars) : chars[i].c # "" /\ chars[i].c # " "}

\* C15 as stated: the baseline is the median of the font sizes of all the
\* characters of the line that are not whitespace, 0 when there is none, and
\* with a baseline of 0 only the brackets are dropped.
C15_BaselineIsMedianOfAllSizes ==
    pc \in {"norm", "normdone"} =>
        /\ Base2(nchars) = MedianTwice(nchars, NonSpace(nchars))
        /\ Base2(nchars) = 0 =>
              nacc.line_text =
                  Pick(nchars, ni, {j \in 1..ni : nchars[j].c \notin {"[", "]"}})

\* C15 amended: the baseline is the median of the font sizes, other than 0,
\* of the characters of the line that are not whitespace, 0 when there is no
\* such size, and with a baseline of 0 only the brackets are dropped.
C15_BaselineIsMedianOfNonZeroSizes ==
    pc \in {"norm", "normdone"} =>
        /\ Base2(nchars) =
              MedianTwice(nchars, {i \in NonSpace(nchars) : nchars[i].size # 0})
        /\ Base2(nchars) = 0 =>
              nacc.line_text =
                  Pick(nchars, ni, {j \in 1..ni : nchars[j].c \notin {"[", "]"}})

\* x at size 0, 1 at 16 and x at 20: the baseline is 18, the median of 16 and
\* 20, where the median of 0, 16 and 20 is 16
C15_Witness ==
    /\ pc = "normdone" /\ Len(nchars) = 3
    /\ nchars[1].c = "x" /\ nchars[1].size = 0
    /\ nchars[2].c = "1" /\ nchars[2].size = 16
    /\ nchars[3].c = "x" /\ nchars[3].size = 20
    /\ Base2(nchars) = 36
    /\ MedianTwice(nchars, NonSpace(nchars)) = 32
    /\ nacc.line_text = <<"x", "1", "x">>

(***************************************************************************)
(* Properties of the tokens of a line that names a book (SpecAbbr).        *)
(***************************************************************************)
\* where the abbreviation starts (0-based): after "x," or at the start
AbbrStart == IF nchars[1].c = "x" THEN 2 ELSE 0

\* the spaces between the abbreviation and the chapter
SpacesIn(chars) == Cardinality({i \in 1..Len(chars) : chars[i].c = " "})

\* the line has the one token that runs from the abbreviation to the end of
\* the line, and the token is FULL
OneFullToken ==
    /\ toks = <<[s |-> AbbrStart, e |-> Len(line_text)]>>
    /\ Kind(SUPDIG_RE_sub(TokenText(line_text, toks[1]))) = "FULL"

\* C16: whatever the abbreviation and however many spaces, none included,
\* stand between it and the chapter, the line has one token, from the
\* abbreviation to the end of the verses, and it is FULL.
C16_OneFullTokenAnySpacing == pc = "tokens" /\ nlines = 1 => OneFullToken

\* C16 with at least one space between the abbreviation and the chapter
C16_OneFullTokenWhenSpaced ==
    pc = "tokens" /\ nlines = 1 /\ SpacesIn(nchars) >= 1 => OneFullToken

\* C16 with no space: the abbreviation and the chapter are in no token, and
\* the verses of "7:3" and "7:3-5" are a bare-number token
C16_NoFullTokenWhenUnspaced ==
    pc = "tokens" /\ nlines = 1 /\ SpacesIn(nchars) = 0 =>
        /\ \A i \in 1..Len(toks) :
              /\ toks[i].s > AbbrStart + 3
              /\ Kind(SUPDIG_RE_sub(TokenText(line_text, toks[i]))) = "VO"
        /\ Len(toks) = IF line_text[Len(line_text) - 1] \in {":", "-"} THEN 1 ELSE 0

(***************************************************************************)
(* Properties of the book and chapter held in a line and between lines.    *)
(***************************************************************************)
\* C17: in a line and between lines a chapter is held only together with a
\* book: neither (current_book, current_chap) nor (ctx_book, ctx_chap) has a
\* chapter and no book.
C17_ChapterOnlyWithBook ==
    /\ current_chap # NoInt => current_book # None
    /\ ctx_chap # NoInt => ctx_book # None

\* a chapter:verse token has just changed the line's chapter while a chapter
\* of an earlier line is carried
C17_Witness ==
    /\ pc = "tokens"
    /\ last.kind = "CV"
    /\ last.book0 # None
    /\ current_chap # last.chap0
    /\ ctx_chap # NoInt
    /\ current_chap # NoInt

\* a chapter:verse token has been passed while no book was held, and the
\* line still has no chapter
C17_BooklessChapVerse ==
    /\ pc = "tokens"
    /\ last.kind = "CV"
    /\ last.book0 = None
    /\ current_chap = NoInt

(***************************************************************************)
(* Properties of the book of the context and of the links (SpecAbbr).      *)
(***************************************************************************)
\* the codes of the table
Codes == { abbr_to_code[i][2] : i \in 1..Len(abbr_to_code) }

\* C18: the book of the context is unset or one of the 27 codes of the
\* table, and the book of the uri of every link is one of the 27 codes,
\* never an abbreviation and never unset.
C18_BooksAreTableCodes ==
    /\ Cardinality(Codes) = 27
    /\ ctx_book \in {None} \cup Codes
    /\ current_book \in {None} \cup Codes
    /\ \A i \in 1..Len(links) :
          /\ UriBook(links[i].uri) \in Codes
          /\ UriBook(links[i].uri) # None

\* the line "2Co 7:3" set the context and the line "8:1" after it has been
\* linked with the book of the context
C18_Witness ==
    /\ pc = "tokens"
    /\ nlines = 2
    /\ ctx_book = "2co"
    /\ Len(links) = 2
    /\ links[1].uri = <<Base, "2co", ".", "7", ".", "3">>
    /\ links[2].uri = <<Base, "2co", ".", "8", ".", "1">>

====
